---- MODULE Spec2Model ----
(***************************************************************************)
(* duetPrintGuard: camera state store, detection loop, majority vote,     *)
(* alert lifecycle, shared video stream and throttled outbound SSE queue.  *)
(*                                                                         *)
(* Encoding of Python values:                                              *)
(*   - None in a string field is "null"; str(None) is the label "None";    *)
(*   - an alert id f"{camera_uuid}_{uuid4}" is the pair <<camera, n>>;      *)
(*     a current_alert_id of None is the empty tuple;                      *)
(*   - an absent task handle or timestamp is 0.                            *)
(* The asyncio event loop runs one task at a time: an action is the code    *)
(* a task runs between two suspension points.                              *)
(***************************************************************************)
EXTENDS Integers, Sequences, FiniteSets, TLC

\* ---- bounds of the model ------------------------------------------------
MaxClock == 3          \* detections appended over a run of the main model
MaxAlerts == 2         \* alerts created over a run
MaxTasks == 2          \* detection loop tasks created over a run
MaxLoopTasks == 3      \* detection loop tasks created over a run of the loop model
MaxPrinterCalls == 3   \* suspend_print_job calls over a run of the printer model
MaxReads == 11         \* cap.read() calls over a run of the stream model
MaxInstances == 2      \* SharedVideoStream instances constructed over a run
MaxStreamTime == 10    \* last value of the stream clock
MaxSseCalls == 4       \* append_new_outbound_packet calls over a run of the SSE model
MaxSseElapsed == 150   \* milliseconds the SSE model lets pass

\* ---- program constants --------------------------------------------------
DETECTION_VOTING_WINDOW == 5
DETECTION_VOTING_THRESHOLD == 2
max_history == 10000
defect_idx == 1
max_consecutive_failures == 10
HEALTHY_WITHIN == 5    \* seconds since the last frame for is_healthy
MIN_SSE_DISPATCH_DELAY_MS == 100
SseEpoch == 1000       \* time.time() * 1000 when the process starts

CamIds == {"c1", "c2"}
class_names == <<"success", "failure">>
AlertAction == {"dismiss", "cancel_print", "pause_print"}
COUNTDOWN_ACTION == "dismiss"
NoAlertId == <<>>
Listeners == {"l1", "l2"}
STREAM_MAX_FPS == 30
STREAM_TUNNEL_FPS == 10
STREAM_JPEG_QUALITY == 85
STREAM_TUNNEL_JPEG_QUALITY == 60
STREAM_MAX_WIDTH == 1280
STREAM_TUNNEL_MAX_WIDTH == 640
config_check_interval == 30
OptimizerEpoch == 100  \* time.time() when the optimizer is first asked
\* StreamOptimizer._config_cache after clear(); Python values are written as
\* their repr ("None", "True", "False", "tunnel", ...)
EmptyCache == [is_tunnel_mode |-> "None", max_fps |-> 0, jpeg_quality |-> 0, max_width |-> 0]
LockCallers == {"main_a", "main_b", "worker_1", "worker_2"}
MainLoop == <<"main", 0>>

VARIABLES
  cameras,        \* CameraStateManager._states: camera id -> CameraState
  alerts,         \* app.state.alerts: alert id -> Alert
  timers,         \* _terminate_alert_after_cooldown tasks: alert id -> position
  tasks,          \* _live_detection_loop tasks: task id -> [cam, pc]
  stopping,       \* stop_live_detection requests waiting on wait_for
  suspend_calls,  \* calls of suspend_print_job, in order
  clock,          \* time.time() as read by the detection loops
  next_alert,     \* number of the next uuid4 drawn for an alert id
  next_task,      \* number of the next detection task
  response,       \* what the last POST /alert/dismiss returned
  vote_result,    \* last evaluation of _passed_majority_vote
  streams,        \* SharedVideoStream instances ever constructed, by number
  registry,       \* SharedVideoStreamManager.streams: camera id -> instance number
  stream_now,     \* time.time() in seconds, as read by the streams
  reads_left,     \* cap.read() calls the frame source still answers in a run
  last_read,      \* what the last get_frame call returned, and from which instance
  outbound_queue, \* app.state.outbound_queue
  last_dispatch_times, \* sse_utils._last_dispatch_times: event type -> ms
  sse_now,        \* time.time() * 1000 as read by append_new_outbound_packet
  sse_log,        \* the append_new_outbound_packet calls so far, with their outcome
  listeners,      \* GET /sse connections: listener -> position of its send_packet generator
  delivered,      \* the packets each connection has yielded to its client, in order
  store_call,     \* the last direct call of a CameraStateManager method: what it
                  \* was given, what it returned or raised, whether it saved
  manager_lock,   \* CameraStateManager._lock and ._loop, and the locks made so far
  locked,         \* the asyncio.Lock objects that are held
  callers,        \* the coroutines calling the manager: their event loop and position
  sse_tasks,      \* sse_update_camera_state tasks created and not yet resumed, per camera
  optimizer,      \* StreamOptimizer: the config keys it reads, its cache and its clock
  alert_events,   \* per alert being announced: the tick creating it, the outcome of
                  \* the push, and the _send_alert tasks created and finished
  printer         \* the printer bound to a camera: its printer_config, the job state
                  \* it reports, the commands it was sent, the suspend_print_job calls

storeVars == <<cameras, alerts, timers, tasks, stopping, suspend_calls, clock,
              next_alert, next_task, response, vote_result, store_call,
              manager_lock, locked, callers, sse_tasks, optimizer, alert_events,
              printer>>

lockVars == <<manager_lock, locked, callers>>

\* variables only their own model changes
otherVars == <<optimizer, alert_events, printer>>

streamVars == <<streams, registry, stream_now, reads_left, last_read>>

sseVars == <<outbound_queue, last_dispatch_times, sse_now, sse_log, listeners, delivered>>

\* what the store, alert and detection actions leave alone
nonStoreVars == <<streamVars, sseVars, store_call, lockVars, sse_tasks, otherVars>>

vars == <<cameras, alerts, timers, tasks, stopping, suspend_calls, clock,
          next_alert, next_task, response, vote_result,
          streams, registry, stream_now, reads_left, last_read,
          outbound_queue, last_dispatch_times, sse_now, sse_log, listeners, delivered,
          store_call, manager_lock, locked, callers, sse_tasks, optimizer,
          alert_events, printer>>

\* ---- helpers ------------------------------------------------------------
Min(a, b) == IF a < b THEN a ELSE b

Max(a, b) == IF a > b THEN a ELSE b

\* Python s[i:] for any integer i
PySliceFrom(s, i) ==
  LET start == IF i < 0 THEN Max(Len(s) + i, 0) ELSE Min(i, Len(s))
  IN SubSeq(s, start + 1, Len(s))

RemoveKey(f, k) == [x \in DOMAIN f \ {k} |-> f[x]]

AddKey(f, k, v) == [x \in DOMAIN f \cup {k} |-> IF x = k THEN v ELSE f[x]]

\* CameraState(nickname=..., source=...) with the defaults of models.py
CameraState(nick) ==
  [nickname |-> nick,
   source |-> "src",
   current_alert_id |-> NoAlertId,
   detection_history |-> <<>>,
   live_detection_running |-> FALSE,
   live_detection_task |-> 0,
   last_result |-> "null",
   last_time |-> 0,
   start_time |-> 0,
   error |-> "null",
   countdown_action |-> COUNTDOWN_ACTION,
   majority_vote_threshold |-> DETECTION_VOTING_THRESHOLD,
   majority_vote_window |-> DETECTION_VOTING_WINDOW,
   printer_config |-> FALSE]

\* the setattr loop of update_camera_state: known keys are set, others ignored
MergeFields(rec, new_states) ==
  [k \in DOMAIN rec |-> IF k \in DOMAIN new_states THEN new_states[k] ELSE rec[k]]

\* CameraStateManager.update_camera_state on a camera that has a record
update_camera_state(st, camera_uuid, new_states) ==
  [st EXCEPT ![camera_uuid] = MergeFields(@, new_states)]

\* variant: a history that drops the newest entries at the cap
append_detection_keep_oldest(history, time_val, pred) ==
  LET h == Append(history, <<time_val, pred>>)
  IN IF Len(h) > max_history THEN SubSeq(h, 1, max_history) ELSE h

\* the history after CameraStateManager.update_camera_detection_history
append_detection(history, time_val, pred) ==
  LET h == Append(history, <<time_val, pred>>)
  IN IF Len(h) > max_history THEN PySliceFrom(h, 0 - max_history) ELSE h

\* CameraStateManager.update_camera_detection_history on a camera with a record
update_camera_detection_history(st, camera_uuid, pred, time_val) ==
  [st EXCEPT ![camera_uuid].detection_history = append_detection(@, time_val, pred)]

\* variant: a CameraState whose fields all have defaults
CameraStateFrom_all_defaults(data) ==
  [raised |-> FALSE, value |-> MergeFields(CameraState("camera"), data)]

\* CameraState(**data): nickname and source have no default, so pydantic
\* raises ValidationError when either is missing; keys that are no field of
\* the model are dropped
CameraStateFrom(data) ==
  IF {"nickname", "source"} \subseteq DOMAIN data
  THEN [raised |-> FALSE, value |-> MergeFields(CameraState(data.nickname), data)]
  ELSE [raised |-> TRUE]

\* CameraStateManager.get_camera_state: the store after the call, what the
\* call returned or that it raised, and whether it saved the config
manager_get_camera_state(st, camera_uuid, reset) ==
  IF camera_uuid \notin DOMAIN st \/ reset
  THEN LET made == CameraStateFrom(<<>>) IN
       IF made.raised
       THEN [raised |-> TRUE, states |-> st, saved |-> FALSE]
       ELSE [raised |-> FALSE, states |-> AddKey(st, camera_uuid, made.value),
             value |-> made.value, saved |-> TRUE]
  ELSE [raised |-> FALSE, states |-> st, value |-> st[camera_uuid], saved |-> FALSE]

\* CameraStateManager.update_camera_state, both branches
manager_update_camera_state(st, camera_uuid, new_states) ==
  IF camera_uuid \notin DOMAIN st
  THEN LET made == CameraStateFrom(new_states) IN
       IF made.raised
       THEN [raised |-> TRUE, states |-> st, saved |-> FALSE]
       ELSE [raised |-> FALSE, states |-> AddKey(st, camera_uuid, made.value),
             value |-> made.value, saved |-> TRUE]
  ELSE LET after == update_camera_state(st, camera_uuid, new_states) IN
       [raised |-> FALSE, states |-> after, value |-> after[camera_uuid], saved |-> TRUE]

\* CameraStateManager.update_camera_detection_history, both branches; the
\* config is saved when the length of the history is a multiple of 100
manager_update_camera_detection_history(st, camera_uuid, pred, time_val) ==
  IF camera_uuid \notin DOMAIN st
  THEN LET made == CameraStateFrom(<<>>) IN
       IF made.raised
       THEN [raised |-> TRUE, states |-> st, saved |-> FALSE]
       ELSE LET after == update_camera_detection_history(
                           AddKey(st, camera_uuid, made.value), camera_uuid, pred, time_val)
            IN [raised |-> FALSE, states |-> after, value |-> after[camera_uuid],
                saved |-> Len(after[camera_uuid].detection_history) % 100 = 0]
  ELSE LET after == update_camera_detection_history(st, camera_uuid, pred, time_val) IN
       [raised |-> FALSE, states |-> after, value |-> after[camera_uuid],
        saved |-> Len(after[camera_uuid].detection_history) % 100 = 0]

\* what CameraStateManager.remove_camera returns
remove_camera_result(st, camera_uuid) == camera_uuid \in DOMAIN st

\* CameraStateManager.get_all_camera_uuids
get_all_camera_uuids(st) == DOMAIN st

\* variant: the comparison with the threshold turned around
passed_majority_vote_flipped(camera_state) ==
  LET detection_history == camera_state.detection_history
      results_to_retreive == Min(Len(detection_history), camera_state.majority_vote_window)
      detection_window_results == PySliceFrom(detection_history, 0 - results_to_retreive)
      failed_detections == SelectSeq(detection_window_results, LAMBDA res : res[2] = "failure")
  IN Len(failed_detections) <= camera_state.majority_vote_threshold

\* _passed_majority_vote
passed_majority_vote(camera_state) ==
  LET detection_history == camera_state.detection_history
      majority_vote_window == camera_state.majority_vote_window
      majority_vote_threshold == camera_state.majority_vote_threshold
      results_to_retreive == Min(Len(detection_history), majority_vote_window)
      detection_window_results == PySliceFrom(detection_history, 0 - results_to_retreive)
      failed_detections == SelectSeq(detection_window_results, LAMBDA res : res[2] = "failure")
  IN Len(failed_detections) >= majority_vote_threshold

\* alert_id.split('_')[0]: camera ids are uuid4 strings, without underscore
CameraOfAlertId(alert_id) == alert_id[1]

\* suspend_print_job: one entry per call
suspend_print_job(log, camera_uuid, action, alert_id, caller) ==
  Append(log, [camera_uuid |-> camera_uuid, action |-> action,
               alert |-> alert_id, by |-> caller,
               registered |-> alert_id \in DOMAIN alerts])

\* ---- shared video stream: the objects -----------------------------------
\* SharedVideoStream.__init__; thread is the position of the capture thread
\* ("none" before start), latest_frame 0 is None, written is the frame the
\* capture loop stored last (0 before the first)
SharedVideoStream(camera_uuid) ==
  [camera_uuid |-> camera_uuid,
   is_running |-> FALSE,
   thread |-> "none",
   consecutive_failures |-> 0,
   pending |-> 0,
   latest_frame |-> 0,
   last_frame_time |-> 0,
   frame_count |-> 0,
   written |-> 0]

\* threading.Thread.is_alive()
is_alive(stream) == stream.thread \in {"open", "loop", "store"}

\* SharedVideoStream.start
stream_start(stream) ==
  IF stream.is_running THEN stream
  ELSE [stream EXCEPT !.is_running = TRUE, !.thread = "open"]

\* SharedVideoStream.stop: the flag is cleared; join(timeout=1.0) returns
\* whether or not the thread has finished
stream_stop(stream) == [stream EXCEPT !.is_running = FALSE]

\* variant: a slot that keeps the first frame it was given
store_frame_keep_first(slot, frame) == IF slot = 0 THEN frame ELSE slot

\* the slot after `self.latest_frame = frame.copy()`
store_frame(slot, frame) == frame

\* SharedVideoStream.get_frame_info
get_frame_info(stream, now) ==
  [frame_count |-> stream.frame_count,
   last_frame_time |-> stream.last_frame_time,
   has_frame |-> stream.latest_frame # 0,
   is_running |-> stream.is_running,
   is_healthy |-> stream.is_running /\ now - stream.last_frame_time < HEALTHY_WITHIN]

\* variant: a release that leaves the instance running
release_stream_keeps_running(all, reg, camera_uuid) == all

\* the instances after SharedVideoStreamManager.release_stream
release_stream_streams(all, reg, camera_uuid) ==
  IF camera_uuid \in DOMAIN reg
  THEN [all EXCEPT ![reg[camera_uuid]] = stream_stop(@)]
  ELSE all


\* ---- initial state ------------------------------------------------------
Init ==
  /\ cameras = [c \in CamIds |-> CameraState(c)]
  /\ alerts = <<>>
  /\ timers = <<>>
  /\ tasks = <<>>
  /\ stopping = [c \in CamIds |-> -1]
  /\ suspend_calls = <<>>
  /\ clock = 1
  /\ next_alert = 1
  /\ next_task = 1
  /\ response = "none"
  /\ vote_result = [evaluated |-> FALSE]
  /\ streams = <<>>
  /\ registry = <<>>
  /\ stream_now = HEALTHY_WITHIN
  /\ reads_left = MaxReads
  /\ last_read = [instance |-> 0]
  /\ outbound_queue = <<>>
  /\ last_dispatch_times = <<>>
  /\ sse_now = SseEpoch
  /\ sse_log = <<>>
  /\ listeners = [l \in Listeners |-> [pc |-> "none", connected |-> FALSE,
                                       packet |-> 0, since |-> 0]]
  /\ delivered = [l \in Listeners |-> <<>>]
  /\ store_call = [op |-> "none"]
  /\ manager_lock = [lock |-> 0, loop |-> <<"none", 0>>, created |-> 0]
  /\ locked = {}
  /\ callers = [k \in LockCallers |-> [pc |-> "idle", loop |-> <<"none", 0>>, lock |-> 0,
                                       op |-> "none", calls |-> 0]]
  /\ sse_tasks = [c \in CamIds |-> 0]
  /\ optimizer = [startup_mode |-> "local", tunnel_provider |-> "None",
                  stream_optimize_for_tunnel |-> "None",
                  last_config_check |-> 0, now |-> OptimizerEpoch,
                  config_cache |-> EmptyCache, recomputed |-> FALSE]
  /\ alert_events = [creating |-> <<>>, push |-> <<>>, pending |-> <<>>, sent |-> {}]
  /\ printer = [printer_type |-> "None", state |-> "Operational", commands |-> <<>>,
                calls |-> <<>>]

\* ---- detection routes ---------------------------------------------------
\* variant: a start that keeps the results of the previous run
start_reset_keeping_results == [current_alert_id |-> NoAlertId]

\* the fields the start handler resets before it starts the loop
start_reset ==
  [current_alert_id |-> NoAlertId, detection_history |-> <<>>,
   last_result |-> "null", last_time |-> 0, error |-> "null"]

\* POST /detect/live/start; the handler runs without suspension once
\* get_camera_state has returned the record; max_tasks caps the tasks a run
\* of the model creates
start_live_detection_bounded(camera_uuid, max_tasks) ==
  /\ next_task <= max_tasks
  /\ IF camera_uuid \notin DOMAIN cameras
     THEN UNCHANGED <<cameras, tasks, next_task>>
     ELSE IF cameras[camera_uuid].live_detection_running
     THEN UNCHANGED <<cameras, tasks, next_task>>
     ELSE /\ cameras' = update_camera_state(
                 update_camera_state(cameras, camera_uuid, start_reset),
                 camera_uuid,
                 [start_time |-> clock, live_detection_running |-> TRUE,
                  live_detection_task |-> next_task])
          /\ tasks' = AddKey(tasks, next_task,
                              [cam |-> camera_uuid, pc |-> "start", at |-> "none"])
          /\ next_task' = next_task + 1
  /\ UNCHANGED <<alerts, timers, stopping, suspend_calls, clock, next_alert, response,
                 vote_result, nonStoreVars>>

\* POST /detect/live/start in the models that create up to MaxTasks tasks
start_live_detection(camera_uuid) == start_live_detection_bounded(camera_uuid, MaxTasks)

\* the awaits a detection loop task can be suspended in
LivePcs == {"start", "infer", "notify", "sleep"}

TaskLive(t) == t \in DOMAIN tasks /\ tasks[t].pc \in LivePcs

\* variant: a wait that gives up on a pending task without cancelling it
task_after_wait_only(task) == task

\* asyncio.wait_for(task, timeout=0.25): a finished task is left as it is, a
\* pending one is cancelled at the await it is suspended in (recorded in at)
task_after_wait_for(task) ==
  IF task.pc \in LivePcs THEN [task EXCEPT !.pc = "cancelled", !.at = task.pc] ELSE task

\* POST /detect/live/stop up to `await asyncio.wait_for(live_detection_task, 0.25)`
stop_live_detection_begin(camera_uuid) ==
  /\ stopping[camera_uuid] = -1
  /\ IF camera_uuid \notin DOMAIN cameras
     THEN UNCHANGED stopping
     ELSE IF ~cameras[camera_uuid].live_detection_running
     THEN UNCHANGED stopping
     ELSE stopping' = [stopping EXCEPT ![camera_uuid] =
                          cameras[camera_uuid].live_detection_task]
  /\ UNCHANGED <<cameras, alerts, timers, tasks, suspend_calls, clock, next_alert,
                 next_task, response, vote_result, nonStoreVars>>

\* wait_for returns (the task finished) or times out and cancels the task;
\* then the record is updated
stop_live_detection_end(camera_uuid) ==
  /\ stopping[camera_uuid] # -1
  /\ LET t == stopping[camera_uuid] IN
       tasks' = IF t \in DOMAIN tasks
                THEN [tasks EXCEPT ![t] = task_after_wait_for(@)]
                ELSE tasks
  /\ stopping' = [stopping EXCEPT ![camera_uuid] = -1]
  /\ IF camera_uuid \in DOMAIN cameras
     THEN /\ cameras' = update_camera_state(cameras, camera_uuid,
                 [start_time |-> 0, live_detection_running |-> FALSE,
                  live_detection_task |-> 0])
     ELSE /\ UNCHANGED cameras
  /\ UNCHANGED <<alerts, timers, suspend_calls, clock, next_alert, next_task, response,
                 vote_result, nonStoreVars>>

\* ---- detection loop -----------------------------------------------------
\* variant: a loop that records the error and leaves the flag as it is
no_frame_update_error_only == [error |-> "Failed to get frame from shared stream"]

\* what the loop writes to the record when get_shared_camera_frame gave None
no_frame_update ==
  [error |-> "Failed to get frame from shared stream",
   live_detection_running |-> FALSE]

\* top of an iteration up to `await _run_inference`; frame is the result of
\* get_shared_camera_frame
loop_iterate(t, frame) ==
  /\ t \in DOMAIN tasks
  /\ tasks[t].pc \in {"start", "sleep"}
  /\ LET camera_uuid == tasks[t].cam IN
     IF camera_uuid \notin DOMAIN cameras
     THEN /\ tasks' = [tasks EXCEPT ![t].pc = "failed"]
          /\ UNCHANGED cameras
     ELSE IF ~cameras[camera_uuid].live_detection_running
     THEN /\ tasks' = [tasks EXCEPT ![t].pc = "done"]
          /\ UNCHANGED cameras
     ELSE IF frame = "none"
     THEN /\ cameras' = update_camera_state(cameras, camera_uuid, no_frame_update)
          /\ tasks' = [tasks EXCEPT ![t].pc = "done"]
     ELSE /\ tasks' = [tasks EXCEPT ![t].pc = "infer"]
          /\ UNCHANGED cameras
  /\ UNCHANGED <<alerts, timers, stopping, suspend_calls, clock, next_alert, next_task,
                 response, vote_result, nonStoreVars>>

\* variant: a failed inference labelled as the defect class
LabelOf_failed_as_defect(numeric) ==
  IF numeric \in 0..(Len(class_names) - 1)
  THEN class_names[numeric + 1] ELSE class_names[defect_idx + 1]

\* class_names[numeric] for an int in range, str(numeric) otherwise
LabelOf(numeric) ==
  IF numeric \in 0..(Len(class_names) - 1) THEN class_names[numeric + 1] ELSE "None"

\* Alert(...) of _create_alert_and_notify
NewAlert(alert_id, camera_state_ref, camera_uuid, timestamp_arg) ==
  [id |-> alert_id, camera_uuid |-> camera_uuid, timestamp |-> timestamp_arg,
   countdown_action |-> camera_state_ref.countdown_action,
   has_printer |-> camera_state_ref.printer_config]

\* variant: a claim that does not look at current_alert_id
claim_alert_slot_taken_or_not(camera_state_ref) ==
  passed_majority_vote(camera_state_ref)

\* the test-and-set under camera_state_ref.lock
claim_alert_slot(camera_state_ref) ==
  camera_state_ref.current_alert_id = NoAlertId /\ passed_majority_vote(camera_state_ref)

\* `isinstance(numeric, int) and numeric == app_state.defect_idx`; numeric is
\* -1 for the None of a failed inference
is_defect(numeric) == numeric = defect_idx

\* from the inference result to the next suspension; numeric is -1 when
\* _run_inference raised; for a camera without a record
\* update_camera_detection_history raises and the task ends
loop_detect_effect(t, numeric) ==
  /\ t \in DOMAIN tasks
  /\ tasks[t].pc = "infer"
  /\ clock < MaxClock
  /\ next_alert <= MaxAlerts
  /\ LET camera_uuid == tasks[t].cam
         label == LabelOf(numeric)
         appended == manager_update_camera_detection_history(cameras, camera_uuid,
                                                             label, clock)
     IN
     IF appended.raised
     THEN /\ tasks' = [tasks EXCEPT ![t].pc = "failed"]
          /\ UNCHANGED <<cameras, alerts, timers, next_alert, clock>>
     ELSE
       LET st1 == appended.states
           st2 == update_camera_state(st1, camera_uuid,
                     [last_result |-> label, last_time |-> clock])
           do_alert == is_defect(numeric) /\ claim_alert_slot(st2[camera_uuid])
           alert_id == <<camera_uuid, next_alert>>
       IN
       /\ clock' = clock + 1
       /\ IF do_alert
          THEN /\ alerts' = AddKey(alerts, alert_id,
                               NewAlert(alert_id, st2[camera_uuid], camera_uuid, clock))
               /\ timers' = AddKey(timers, alert_id, "sleeping")
               /\ cameras' = update_camera_state(st2, camera_uuid,
                                [current_alert_id |-> alert_id])
               /\ next_alert' = next_alert + 1
               /\ tasks' = [tasks EXCEPT ![t].pc = "notify"]
          ELSE /\ cameras' = st2
               /\ tasks' = [tasks EXCEPT ![t].pc = "sleep"]
               /\ UNCHANGED <<alerts, timers, next_alert>>
  /\ UNCHANGED <<stopping, suspend_calls, next_task, response, vote_result>>

\* the tick in the alert and detection model, which keeps no account of the
\* sse_update_camera_state task the tick creates
loop_detect(t, numeric) ==
  /\ loop_detect_effect(t, numeric)
  /\ UNCHANGED nonStoreVars

\* send_defect_notification after its `await get_camera_state`, then
\* create_task(_send_alert(alert)) and the sleep
loop_notified(t) ==
  /\ t \in DOMAIN tasks
  /\ tasks[t].pc = "notify"
  /\ tasks' = [tasks EXCEPT ![t].pc =
                 IF tasks[t].cam \in DOMAIN cameras THEN "sleep" ELSE "failed"]
  /\ UNCHANGED <<cameras, alerts, timers, stopping, suspend_calls, clock, next_alert,
                 next_task, response, vote_result, nonStoreVars>>

\* ---- alert lifecycle ----------------------------------------------------
\* dismiss_alert on a registered alert whose camera has a record
dismiss_alert_store(st, alert_id) ==
  update_camera_state(st, CameraOfAlertId(alert_id), [current_alert_id |-> NoAlertId])

\* _terminate_alert_after_cooldown: the sleep is over; get_alert, then
\* `await get_camera_state`
timer_fire(alert_id) ==
  /\ alert_id \in DOMAIN timers
  /\ timers[alert_id] = "sleeping"
  /\ timers' = [timers EXCEPT ![alert_id] =
                  IF alert_id \in DOMAIN alerts THEN "checked" ELSE "done"]
  /\ UNCHANGED <<cameras, alerts, tasks, stopping, suspend_calls, clock, next_alert,
                 next_task, response, vote_result, nonStoreVars>>

\* _terminate_alert_after_cooldown after get_camera_state: the match on
\* camera_state.countdown_action
timer_act(alert_id) ==
  /\ alert_id \in DOMAIN timers
  /\ timers[alert_id] = "checked"
  /\ LET camera_uuid == alert_id[1] IN
     IF camera_uuid \notin DOMAIN cameras
     THEN /\ timers' = [timers EXCEPT ![alert_id] = "failed"]
          /\ UNCHANGED <<cameras, alerts, suspend_calls>>
     ELSE
       LET action == cameras[camera_uuid].countdown_action
           registered == alert_id \in DOMAIN alerts
       IN
       /\ timers' = [timers EXCEPT ![alert_id] = "done"]
       /\ suspend_calls' = IF action \in {"cancel_print", "pause_print"}
                           THEN suspend_print_job(suspend_calls, camera_uuid, action,
                                                  alert_id, "timer")
                           ELSE suspend_calls
       /\ IF action \in AlertAction /\ registered
          THEN /\ alerts' = RemoveKey(alerts, alert_id)
               /\ cameras' = dismiss_alert_store(cameras, alert_id)
          ELSE /\ UNCHANGED <<alerts, cameras>>
  /\ UNCHANGED <<tasks, stopping, clock, next_alert, next_task, response, vote_result, nonStoreVars>>

\* POST /alert/dismiss
alert_response(alert_id, action) ==
  /\ IF alert_id \notin DOMAIN alerts
     THEN /\ response' = "not found"
          /\ UNCHANGED <<cameras, alerts, suspend_calls>>
     ELSE
       LET camera_uuid == alerts[alert_id].camera_uuid IN
       IF action = "dismiss"
       THEN /\ alerts' = RemoveKey(alerts, alert_id)
            /\ UNCHANGED suspend_calls
            /\ IF CameraOfAlertId(alert_id) \in DOMAIN cameras
               THEN /\ cameras' = dismiss_alert_store(cameras, alert_id)
                    /\ response' = "dismissed"
               ELSE /\ UNCHANGED cameras
                    /\ response' = "error"
       ELSE IF camera_uuid \notin DOMAIN cameras
       THEN /\ response' = "error"
            /\ UNCHANGED <<cameras, alerts, suspend_calls>>
       ELSE /\ suspend_calls' = suspend_print_job(suspend_calls, camera_uuid, action,
                                                  alert_id, "client")
            /\ alerts' = RemoveKey(alerts, alert_id)
            /\ cameras' = dismiss_alert_store(cameras, alert_id)
            /\ response' = "dismissed"
  /\ UNCHANGED <<timers, tasks, stopping, clock, next_alert, next_task, vote_result, nonStoreVars>>

\* ---- settings and removal -----------------------------------------------
\* POST / (update_settings); the form accepts any string and any integers
update_settings(camera_uuid, countdown_action, threshold, window) ==
  /\ IF camera_uuid \in DOMAIN cameras
     THEN /\ cameras' = update_camera_state(cameras, camera_uuid,
                 [countdown_action |-> countdown_action,
                  majority_vote_threshold |-> threshold,
                  majority_vote_window |-> window])
     ELSE /\ UNCHANGED cameras
  /\ UNCHANGED <<alerts, timers, tasks, stopping, suspend_calls, clock, next_alert,
                 next_task, response, vote_result, nonStoreVars>>

\* CameraStateManager.remove_camera, with cleanup_camera_resources releasing
\* the camera's shared stream
remove_camera_effect(camera_uuid) ==
  IF camera_uuid \in DOMAIN cameras
  THEN /\ cameras' = RemoveKey(cameras, camera_uuid)
       /\ streams' = release_stream_streams(streams, registry, camera_uuid)
       /\ registry' = RemoveKey(registry, camera_uuid)
  ELSE /\ UNCHANGED <<cameras, streams, registry>>

\* DELETE of a camera while the alert and detection model runs
remove_camera(camera_uuid) ==
  /\ remove_camera_effect(camera_uuid)
  /\ UNCHANGED <<alerts, timers, tasks, stopping, suspend_calls, clock, next_alert,
                 next_task, response, vote_result, stream_now, reads_left, last_read,
                 sseVars, store_call, lockVars, sse_tasks, otherVars>>

\* ---- the alert and detection model --------------------------------------
TaskIds == 1..MaxTasks

AlertIds == CamIds \X (1..MaxAlerts)

\* values a client posts for countdown_action; "beep" is any other string
ActionInputs == {"dismiss", "cancel_print", "beep"}

\* (threshold, window) pairs a client posts in this model
VoteInputs == {<<1, 1>>}

\* the cameras the requests of this model address; the other camera keeps its
\* record untouched
MainCams == {"c1"}

Next ==
  \/ \E c \in MainCams : start_live_detection(c)
  \/ \E c \in MainCams : stop_live_detection_begin(c)
  \/ \E c \in MainCams : stop_live_detection_end(c)
  \/ \E t \in TaskIds, frame \in {"frame", "none"} : loop_iterate(t, frame)
  \/ \E t \in TaskIds, numeric \in {0, 1, -1} : loop_detect(t, numeric)
  \/ \E t \in TaskIds : loop_notified(t)
  \/ \E a \in AlertIds : timer_fire(a)
  \/ \E a \in AlertIds : timer_act(a)
  \/ \E a \in AlertIds, action \in AlertAction : alert_response(a, action)
  \/ \E c \in MainCams, act \in ActionInputs, v \in VoteInputs :
        update_settings(c, act, v[1], v[2])
  \/ \E c \in MainCams : remove_camera(c)

Spec == Init /\ [][Next]_vars

\* ---- the history model: one camera's history under repeated appends ------
MaxHistoryAppends == 10003

history_append(camera_uuid, pred) ==
  /\ clock <= MaxHistoryAppends
  /\ LET call == manager_update_camera_detection_history(cameras, camera_uuid, pred, clock)
     IN /\ cameras' = call.states
        /\ store_call' = [op |-> "append", camera_uuid |-> camera_uuid,
                          raised |-> call.raised, saved |-> call.saved]
  /\ clock' = clock + 1
  /\ UNCHANGED <<alerts, timers, tasks, stopping, suspend_calls, next_alert, next_task,
                 response, vote_result, streamVars, sseVars, lockVars, sse_tasks, otherVars>>

NextHistory == history_append("c1", "failure")

SpecHistory == Init /\ [][NextHistory]_vars

\* C4: the history holds at most max_history entries and they are the most
\* recently appended ones, in append order (the appends carry times 1, 2, ...)
HistoryIsLatestAppends ==
  LET h == cameras["c1"].detection_history
      appended == clock - 1
  IN /\ Len(h) = Min(appended, max_history)
     /\ \A i \in 1..Len(h) : h[i] = <<appended - Len(h) + i, "failure">>

\* the cap has been passed and the history is full
HistoryEvictedOldest ==
  /\ Len(cameras["c1"].detection_history) = max_history
  /\ clock - 1 > max_history
  /\ cameras["c1"].detection_history[1][1] > 1

\* C19: an append saves the config exactly when it is the 100th, 200th, ...
\* append, before and after the history has reached its cap (clock - 1
\* appends have been made)
SavesOnlyEveryHundredthAppend ==
  store_call.op = "append" => (store_call.saved <=> (clock - 1) % 100 = 0)

\* ---- the vote model: _passed_majority_vote over the records a camera can hold
MaxVoteAppends == 4

\* majority_vote_window and majority_vote_threshold values posted to update_settings
WindowInputs == {0, 3, 5}

ThresholdInputs == {0, 2, 3}

vote_append(camera_uuid, pred) ==
  /\ clock <= MaxVoteAppends
  /\ cameras' = update_camera_detection_history(cameras, camera_uuid, pred, clock)
  /\ clock' = clock + 1
  /\ UNCHANGED <<alerts, timers, tasks, stopping, suspend_calls, next_alert, next_task,
                 response, vote_result, nonStoreVars>>

evaluate_vote(camera_uuid) ==
  /\ vote_result' = [evaluated |-> TRUE,
                     history |-> cameras[camera_uuid].detection_history,
                     window |-> cameras[camera_uuid].majority_vote_window,
                     threshold |-> cameras[camera_uuid].majority_vote_threshold,
                     passed |-> passed_majority_vote(cameras[camera_uuid])]
  /\ UNCHANGED <<cameras, alerts, timers, tasks, stopping, suspend_calls, clock,
                 next_alert, next_task, response, nonStoreVars>>

NextVote ==
  \/ \E pred \in {"success", "failure"} : vote_append("c1", pred)
  \/ \E w \in WindowInputs, th \in ThresholdInputs :
        update_settings("c1", COUNTDOWN_ACTION, th, w)
  \/ evaluate_vote("c1")

SpecVote == Init /\ [][NextVote]_vars

LastEntries(h, k) == SubSeq(h, Len(h) - k + 1, Len(h))

FailuresIn(h) == Cardinality({i \in 1..Len(h) : h[i][2] = "failure"})

\* C2: for a window W >= 0 the vote passes exactly when the last
\* min(|history|, W) entries hold at least T entries labelled 'failure'
VoteCountsLastWindow ==
  (vote_result.evaluated /\ vote_result.window >= 0) =>
     (vote_result.passed <=>
        FailuresIn(LastEntries(vote_result.history,
                               Min(Len(vote_result.history), vote_result.window)))
          >= vote_result.threshold)

\* C3 as stated: with an empty history the vote never passes, whatever the
\* window and threshold of the record
EmptyHistoryNeverPasses ==
  (vote_result.evaluated /\ vote_result.history = <<>>) => ~vote_result.passed

\* C3 amended: with an empty history the vote never passes for a threshold of
\* at least 1, whatever the window
EmptyHistoryNeverPassesPositiveThreshold ==
  (vote_result.evaluated /\ vote_result.history = <<>> /\ vote_result.threshold >= 1)
     => ~vote_result.passed

EmptyHistoryVoteEvaluated ==
  /\ vote_result.evaluated
  /\ vote_result.history = <<>>
  /\ vote_result.threshold >= 1
  /\ vote_result.window = 0
  /\ ~vote_result.passed

\* ---- the stream model: SharedVideoStreamManager and its capture threads ---
StreamIds == 1..MaxInstances

\* SharedVideoStreamManager.get_stream, under the manager lock
get_stream(camera_uuid) ==
  LET replace == /\ camera_uuid \in DOMAIN registry
                 /\ LET existing_stream == streams[registry[camera_uuid]]
                    IN \/ ~existing_stream.is_running
                       \/ existing_stream.thread = "none"
                       \/ ~is_alive(existing_stream)
      create == camera_uuid \notin DOMAIN registry \/ replace
      stopped == IF replace
                 THEN [streams EXCEPT ![registry[camera_uuid]] = stream_stop(@)]
                 ELSE streams
  IN
  /\ create => Len(streams) < MaxInstances
  /\ IF create
     THEN /\ streams' = Append(stopped, stream_start(SharedVideoStream(camera_uuid)))
          /\ registry' = AddKey(registry, camera_uuid, Len(streams) + 1)
     ELSE /\ streams' = [streams EXCEPT ![registry[camera_uuid]] = stream_start(@)]
          /\ UNCHANGED registry
  /\ UNCHANGED <<storeVars, stream_now, reads_left, last_read, sseVars>>

\* SharedVideoStreamManager.release_stream
release_stream(camera_uuid) ==
  /\ streams' = release_stream_streams(streams, registry, camera_uuid)
  /\ registry' = RemoveKey(registry, camera_uuid)
  /\ UNCHANGED <<storeVars, stream_now, reads_left, last_read, sseVars>>

\* _capture_loop: cv2.VideoCapture(source) and the isOpened check
capture_open(i, opened) ==
  /\ i \in 1..Len(streams)
  /\ streams[i].thread = "open"
  /\ streams' = [streams EXCEPT ![i].thread = IF opened THEN "loop" ELSE "dead",
                                ![i].consecutive_failures = 0]
  /\ UNCHANGED <<storeVars, registry, stream_now, reads_left, last_read, sseVars>>

\* _capture_loop: the `while self.is_running` test and one cap.read()
capture_read(i, ret) ==
  /\ i \in 1..Len(streams)
  /\ streams[i].thread = "loop"
  /\ IF ~streams[i].is_running
     THEN /\ streams' = [streams EXCEPT ![i].thread = "dead"]
          /\ UNCHANGED reads_left
     ELSE /\ reads_left > 0
          /\ reads_left' = reads_left - 1
          /\ IF ~ret
             THEN LET failures == streams[i].consecutive_failures + 1 IN
                  streams' = [streams EXCEPT
                                ![i].consecutive_failures = failures,
                                ![i].thread = IF failures >= max_consecutive_failures
                                              THEN "dead" ELSE "loop"]
             ELSE streams' = [streams EXCEPT
                                ![i].consecutive_failures = 0,
                                ![i].pending = streams[i].frame_count + 1,
                                ![i].thread = "store"]
  /\ UNCHANGED <<storeVars, registry, stream_now, last_read, sseVars>>

\* _capture_loop: the block under frame_lock that publishes the frame
capture_store(i) ==
  /\ i \in 1..Len(streams)
  /\ streams[i].thread = "store"
  /\ streams' = [streams EXCEPT
                   ![i].latest_frame = store_frame(@, streams[i].pending),
                   ![i].last_frame_time = stream_now,
                   ![i].frame_count = @ + 1,
                   ![i].written = streams[i].pending,
                   ![i].thread = "loop"]
  /\ UNCHANGED <<storeVars, registry, stream_now, reads_left, last_read, sseVars>>

\* _capture_loop: cap.read() raises cv2.error; the except clause ends the thread
capture_error(i) ==
  /\ i \in 1..Len(streams)
  /\ streams[i].thread = "loop"
  /\ streams[i].is_running
  /\ streams' = [streams EXCEPT ![i].thread = "dead"]
  /\ UNCHANGED <<storeVars, registry, stream_now, reads_left, last_read, sseVars>>

\* SharedVideoStream.get_frame by any holder of the instance
get_frame(i) ==
  /\ i \in 1..Len(streams)
  /\ last_read' = [instance |-> i,
                   frame |-> streams[i].latest_frame,
                   written |-> streams[i].written]
  /\ UNCHANGED <<storeVars, streams, registry, stream_now, reads_left, sseVars>>

\* the time within which a frame counts as fresh passes
stream_tick ==
  /\ stream_now + HEALTHY_WITHIN <= MaxStreamTime
  /\ stream_now' = stream_now + HEALTHY_WITHIN
  /\ UNCHANGED <<storeVars, streams, registry, reads_left, last_read, sseVars>>

NextStream ==
  \/ \E c \in MainCams : get_stream(c)
  \/ \E c \in MainCams : release_stream(c)
  \/ \E i \in StreamIds, opened \in BOOLEAN : capture_open(i, opened)
  \/ \E i \in StreamIds, ret \in BOOLEAN : capture_read(i, ret)
  \/ \E i \in StreamIds : capture_store(i)
  \/ \E i \in StreamIds : capture_error(i)
  \/ \E i \in StreamIds : get_frame(i)
  \/ stream_tick

SpecStream == Init /\ [][NextStream]_vars

\* C5: get_frame can be called on every instance in every state, and what it
\* returned is the frame that instance's capture loop stored last, or nothing
\* when the loop has stored none
GetFrameReturnsLatestWritten ==
  /\ \A i \in 1..Len(streams) : ENABLED get_frame(i)
  /\ last_read.instance # 0 => last_read.frame = last_read.written

\* a read that returned a frame stored after an earlier frame of the instance
GetFrameAfterSecondStore ==
  /\ last_read.instance # 0
  /\ last_read.frame # 0
  /\ last_read.frame >= 2
  /\ last_read.frame = last_read.written

\* C6: a capture loop that ended on its 10th consecutive failed read leaves
\* the stream not running and reported unhealthy
StoppedAfterFailuresIsNotRunning ==
  \A i \in 1..Len(streams) :
    (streams[i].thread = "dead"
       /\ streams[i].consecutive_failures >= max_consecutive_failures)
      => /\ ~get_frame_info(streams[i], stream_now).is_running
         /\ ~get_frame_info(streams[i], stream_now).is_healthy

CaptureLoopsOf(camera_uuid) ==
  {i \in 1..Len(streams) : streams[i].camera_uuid = camera_uuid /\ is_alive(streams[i])}

\* C20: at most one capture thread is alive for a camera id at any time
AtMostOneCaptureLoopPerCamera ==
  \A c \in CamIds : Cardinality(CaptureLoopsOf(c)) <= 1

\* a get_stream call that hands back the instance that was registered
get_stream_keeps(camera_uuid) ==
  get_stream(camera_uuid) /\ registry'[camera_uuid] = registry[camera_uuid]

\* a get_stream call that hands back an instance made by that call
get_stream_replaces(camera_uuid) ==
  get_stream(camera_uuid) /\ registry'[camera_uuid] = Len(streams) + 1

\* a get_stream call that hands back a stream that is not running or whose
\* capture thread is not started
get_stream_not_started(camera_uuid) ==
  /\ get_stream(camera_uuid)
  /\ LET returned == streams'[registry'[camera_uuid]]
     IN ~returned.is_running \/ ~is_alive(returned)

\* C21: get_stream returns a running stream whose capture thread is started;
\* a registered stream that is not running, whose thread has died or that is
\* unhealthy is replaced by a fresh instance, and any other registered
\* stream is handed back as it is
AcquireReturnsRunningOrReplaces ==
  \A c \in MainCams :
    /\ ~ENABLED get_stream_not_started(c)
    /\ c \in DOMAIN registry
         => LET existing_stream == streams[registry[c]] IN
            IF \/ ~existing_stream.is_running
               \/ ~is_alive(existing_stream)
               \/ ~get_frame_info(existing_stream, stream_now).is_healthy
            THEN ~ENABLED get_stream_keeps(c)
            ELSE ~ENABLED get_stream_replaces(c)

\* the stream get_shared_camera_frame reads from: the one registered for a
\* camera
IsRegistered(i) == \E c \in DOMAIN registry : registry[c] = i

\* C22: a consumer that obtains a frame from a camera's stream while that
\* stream is not running or its last frame is 5 seconds old or older gets no
\* frame
UnhealthyStreamYieldsNoFrame ==
  [][\A i \in StreamIds :
       (get_frame(i) /\ IsRegistered(i)
          /\ ~get_frame_info(streams[i], stream_now).is_healthy)
         => last_read'.frame = 0]_vars

\* ---- the SSE model: the throttled outbound queue --------------------------
SSEDataType == {"alert", "camera_state"}

\* milliseconds between two observations of the clock
SseSteps == {10, 90}

\* _last_dispatch_times.get(sse_data_type, 0)
last_dispatch_time(times, sse_data_type) ==
  IF sse_data_type \in DOMAIN times THEN times[sse_data_type] ELSE 0

\* variant: an event exactly min_sse_dispatch_delay after the last is dropped too
throttled_inclusive(current_time, last_time, min_sse_dispatch_delay) ==
  current_time - last_time <= min_sse_dispatch_delay

\* the test `time_since_last_dispatch < min_sse_dispatch_delay`
throttled(current_time, last_time, min_sse_dispatch_delay) ==
  current_time - last_time < min_sse_dispatch_delay

\* variant: a put that places the packet at the head of the queue
queue_put_first(queue, pkt) == <<pkt>> \o queue

\* app.state.outbound_queue.put(pkt_json) on the unbounded FIFO queue
queue_put(queue, pkt) == Append(queue, pkt)

\* the body of append_new_outbound_packet; the put on the unbounded queue
\* does not wait
append_new_outbound_packet_effect(packet, sse_data_type) ==
  /\ LET current_time == sse_now
         last == last_dispatch_time(last_dispatch_times, sse_data_type)
     IN IF throttled(current_time, last, MIN_SSE_DISPATCH_DELAY_MS)
        THEN UNCHANGED <<outbound_queue, last_dispatch_times>>
        ELSE /\ outbound_queue' = queue_put(outbound_queue,
                                            [event |-> sse_data_type, data |-> packet])
             /\ last_dispatch_times' = AddKey(last_dispatch_times, sse_data_type,
                                              current_time)
  /\ sse_log' = Append(sse_log, [type |-> sse_data_type, at |-> sse_now,
                                 packet |-> packet,
                                 queued |-> outbound_queue' # outbound_queue])

\* a call of append_new_outbound_packet
append_new_outbound_packet(packet, sse_data_type) ==
  /\ Len(sse_log) < MaxSseCalls
  /\ append_new_outbound_packet_effect(packet, sse_data_type)
  /\ UNCHANGED <<storeVars, streamVars, sse_now, listeners, delivered>>

\* outbound_packet_fetch: a client connection takes the next packet
outbound_packet_fetch ==
  /\ outbound_queue # <<>>
  /\ outbound_queue' = Tail(outbound_queue)
  /\ UNCHANGED <<storeVars, streamVars, last_dispatch_times, sse_now, sse_log,
                 listeners, delivered>>

sse_tick(ms) ==
  /\ sse_now + ms <= SseEpoch + MaxSseElapsed
  /\ sse_now' = sse_now + ms
  /\ UNCHANGED <<storeVars, streamVars, outbound_queue, last_dispatch_times, sse_log,
                 listeners, delivered>>

NextSSE ==
  \/ \E t \in SSEDataType : append_new_outbound_packet(Len(sse_log) + 1, t)
  \/ outbound_packet_fetch
  \/ \E ms \in SseSteps : sse_tick(ms)

SpecSSE == Init /\ [][NextSSE]_vars

\* the calls before call k that enqueued an event of the type of call k
EnqueuedBefore(k) ==
  {j \in 1..(k - 1) : sse_log[j].type = sse_log[k].type /\ sse_log[j].queued}

LastOf(S) == CHOOSE j \in S : \A x \in S : x <= j

\* C7: a call enqueues its event exactly when no event of its type was
\* enqueued before or the last enqueued one of its type is at least
\* MIN_SSE_DISPATCH_DELAY_MS old; dropped calls and other types play no part.
\* After an enqueued event, one of the same type 10 ms later is dropped and
\* one 150 ms later is enqueued.
ThrottlePerType ==
  \A k \in 1..Len(sse_log) :
    /\ sse_log[k].queued <=>
         \/ EnqueuedBefore(k) = {}
         \/ sse_log[k].at - sse_log[LastOf(EnqueuedBefore(k))].at
              >= MIN_SSE_DISPATCH_DELAY_MS
    /\ \A j \in EnqueuedBefore(k) :
         /\ sse_log[k].at - sse_log[j].at = 10 => ~sse_log[k].queued
         /\ (j = LastOf(EnqueuedBefore(k)) /\ sse_log[k].at - sse_log[j].at = 150)
              => sse_log[k].queued

\* an event enqueued, one of its type dropped 10 ms later, one of another
\* type enqueued meanwhile, and one of the first type enqueued 100 ms after
\* the first
ThrottleDropThenEnqueue ==
  \E i, j, k, l \in 1..Len(sse_log) :
    /\ i < j /\ j < k /\ k < l
    /\ sse_log[i].type = sse_log[j].type /\ sse_log[j].type = sse_log[l].type
    /\ sse_log[k].type # sse_log[i].type /\ sse_log[k].queued
    /\ sse_log[i].queued /\ ~sse_log[j].queued /\ sse_log[l].queued
    /\ sse_log[j].at - sse_log[i].at = 10
    /\ sse_log[l].at - sse_log[i].at = MIN_SSE_DISPATCH_DELAY_MS

\* ---- properties of the alert lifecycle ------------------------------------
AlertsOf(camera_uuid) == {a \in DOMAIN alerts : alerts[a].camera_uuid = camera_uuid}

\* C1: in every reachable state each camera has at most one registered alert
AtMostOneAlertPerCamera ==
  \A c \in CamIds : Cardinality(AlertsOf(c)) <= 1

\* C8: with no client request at all, an alert created with countdown_action
\* "dismiss" is no longer registered once its countdown task has ended
DismissCountdownRemovesAlert ==
  \A a \in DOMAIN alerts :
    ~ /\ response = "none"
      /\ alerts[a].countdown_action = "dismiss"
      /\ a \in DOMAIN timers
      /\ timers[a] \in {"done", "failed"}

\* C9: a POST /alert/dismiss with any action on a registered alert leaves the
\* alert unregistered and the owning camera's current_alert_id none
ClientActionClearsAlert ==
  [][\A a \in AlertIds, action \in AlertAction :
       (a \in DOMAIN alerts /\ alert_response(a, action))
         => /\ a \notin DOMAIN alerts'
            /\ alerts[a].camera_uuid \in DOMAIN cameras'
                 => cameras'[alerts[a].camera_uuid].current_alert_id = NoAlertId]_vars

\* C10: a countdown task or a client request that acts on an alert that is no
\* longer registered changes neither the registry nor a camera record, calls
\* no printer suspend, and the request answers "not found"
ClearingClearedAlertIsNoOp ==
  [][\A a \in AlertIds :
       /\ (a \notin DOMAIN alerts /\ (timer_fire(a) \/ timer_act(a)))
            => UNCHANGED <<alerts, cameras, suspend_calls>>
       /\ \A action \in AlertAction :
            (a \notin DOMAIN alerts /\ alert_response(a, action))
              => /\ UNCHANGED <<alerts, cameras, suspend_calls>>
                 /\ response' = "not found"]_vars

\* the calls of suspend_print_job made for an alert
SuspendCallsFor(alert_id) ==
  {k \in 1..Len(suspend_calls) : suspend_calls[k].alert = alert_id}

\* C11: whatever the interleaving of an alert's countdown task with client
\* requests, suspend_print_job is called at most once for the alert
SuspendAtMostOncePerAlert ==
  \A a \in AlertIds : Cardinality(SuspendCallsFor(a)) <= 1

StopClearsFlagBeforeWaiting ==
  [][\A c \in CamIds :
       (stopping[c] = -1 /\ stopping'[c] # -1 /\ c \in DOMAIN cameras')
         => ~cameras'[c].live_detection_running]_vars

\* the detection loop tasks of a camera that have not finished
LiveLoopsOf(camera_uuid) ==
  {t \in DOMAIN tasks : tasks[t].cam = camera_uuid /\ tasks[t].pc \in LivePcs}

\* the loop model: start and stop requests and the detection loops of both
\* cameras, with no client acting on the alerts
LoopTaskIds == 1..MaxLoopTasks

NextLoops ==
  \/ \E c \in CamIds : start_live_detection_bounded(c, MaxLoopTasks)
  \/ \E c \in CamIds : stop_live_detection_begin(c)
  \/ \E c \in CamIds : stop_live_detection_end(c)
  \/ \E t \in LoopTaskIds, frame \in {"frame", "none"} : loop_iterate(t, frame)
  \/ \E t \in LoopTaskIds, numeric \in {0, 1} : loop_detect(t, numeric)
  \/ \E t \in LoopTaskIds : loop_notified(t)

SpecLoops == Init /\ [][NextLoops]_vars

\* C26: in every reachable state each camera has at most one detection loop
\* task that has not finished
AtMostOneLiveLoopPerCamera ==
  \A c \in CamIds : Cardinality(LiveLoopsOf(c)) <= 1

\* C27: a step that registers an alert is a detection tick of the alert's
\* camera whose entry, the last of the history, carries the defect label, at
\* which the majority vote over the history with that entry passes and before
\* which the camera's current_alert_id was none; the step leaves
\* current_alert_id set to the new alert, so the slot is taken when the next
\* tick tests it
AlertOnlyByClaimingFreeSlot ==
  [][\A a \in AlertIds :
       (a \notin DOMAIN alerts /\ a \in DOMAIN alerts')
         => LET c == alerts'[a].camera_uuid IN
            /\ c \in DOMAIN cameras
            /\ c \in DOMAIN cameras'
            /\ cameras[c].current_alert_id = NoAlertId
            /\ LET h == cameras'[c].detection_history IN
                 /\ Len(h) = Len(cameras[c].detection_history) + 1
                 /\ h[Len(h)] = <<alerts'[a].timestamp, class_names[defect_idx + 1]>>
            /\ passed_majority_vote(cameras'[c])
            /\ cameras'[c].current_alert_id = a]_vars

\* an alert was created at the first tick of a run, and the second tick of
\* the run, which predicted the defect class too, found the slot taken and
\* created none
AlertClaimedOnce ==
  \E a \in DOMAIN alerts :
    LET c == alerts[a].camera_uuid IN
    /\ c \in DOMAIN cameras
    /\ cameras[c].current_alert_id = a
    /\ Cardinality(AlertsOf(c)) = 1
    /\ LET h == cameras[c].detection_history IN
         /\ Len(h) = 2
         /\ h[1][2] = class_names[defect_idx + 1]
         /\ h[1][1] = alerts[a].timestamp
         /\ h[2][2] = class_names[defect_idx + 1]

\* C28: a start request for a camera that is not running empties
\* detection_history, sets last_result, last_time and error to none, sets
\* start_time and live_detection_running, and creates exactly one loop task,
\* the one the record then names; a start request for a camera that is
\* running cannot change the state
StartResetsStoppedCameraOnly ==
  /\ [](\A c \in CamIds :
          (c \in DOMAIN cameras /\ cameras[c].live_detection_running)
            => ~ENABLED (start_live_detection(c) /\ vars' # vars))
  /\ [][\A c \in CamIds :
          (start_live_detection(c) /\ c \in DOMAIN cameras
             /\ ~cameras[c].live_detection_running)
            => /\ cameras'[c].detection_history = <<>>
               /\ cameras'[c].last_result = "null"
               /\ cameras'[c].last_time = 0
               /\ cameras'[c].error = "null"
               /\ cameras'[c].start_time = clock
               /\ cameras'[c].start_time # 0
               /\ cameras'[c].live_detection_running
               /\ \E t \in TaskIds :
                    /\ DOMAIN tasks' = DOMAIN tasks \cup {t}
                    /\ t \notin DOMAIN tasks
                    /\ tasks'[t].cam = c
                    /\ tasks'[t].pc = "start"
                    /\ cameras'[c].live_detection_task = t
                    /\ \A u \in DOMAIN tasks : tasks'[u] = tasks[u]]_vars

\* the camera was started again after a run that recorded a detection and
\* ended with an error: the record of the new run is clean
RestartedAfterFailedRun ==
  /\ "c1" \in DOMAIN cameras
  /\ cameras["c1"].live_detection_running
  /\ cameras["c1"].detection_history = <<>>
  /\ cameras["c1"].error = "null"
  /\ cameras["c1"].start_time > 1
  /\ DOMAIN tasks = {1, 2}
  /\ tasks[1].pc = "done"
  /\ tasks[2].pc = "start"

\* C29: when a running camera's loop gets no frame at the top of an
\* iteration, the step leaves a non-empty error in that camera's record, its
\* live_detection_running false and the loop task finished, and changes no
\* record, no loop task and no alert of another camera
NoFrameStopsOnlyThatCamera ==
  [][\A t \in LoopTaskIds :
       (/\ loop_iterate(t, "none")
        /\ tasks[t].cam \in DOMAIN cameras
        /\ cameras[tasks[t].cam].live_detection_running)
         => LET c == tasks[t].cam IN
            /\ cameras'[c].error \notin {"null", ""}
            /\ ~cameras'[c].live_detection_running
            /\ tasks'[t].pc \notin LivePcs
            /\ DOMAIN cameras' = DOMAIN cameras
            /\ DOMAIN tasks' = DOMAIN tasks
            /\ DOMAIN alerts' = DOMAIN alerts
            /\ \A d \in DOMAIN cameras \ {c} : cameras'[d] = cameras[d]
            /\ \A u \in DOMAIN tasks : tasks[u].cam # c => tasks'[u] = tasks[u]
            /\ \A a \in DOMAIN alerts : alerts[a].camera_uuid # c => alerts'[a] = alerts[a]]_vars

\* the loop of c1 has ended for want of a frame while c2 is running with a
\* loop between two ticks and a registered alert
NoFrameWhileOtherCameraDetects ==
  /\ {"c1", "c2"} \subseteq DOMAIN cameras
  /\ ~cameras["c1"].live_detection_running
  /\ cameras["c1"].error = no_frame_update.error
  /\ \E t \in DOMAIN tasks : tasks[t].cam = "c1" /\ tasks[t].pc = "done"
  /\ cameras["c2"].live_detection_running
  /\ cameras["c2"].error = "null"
  /\ \E u \in DOMAIN tasks : tasks[u].cam = "c2" /\ tasks[u].pc = "sleep"
  /\ AlertsOf("c2") # {}

\* C30: a tick whose inference raised leaves the loop task pending at the
\* sleep before its next tick, leaves live_detection_running as it was, true,
\* records a result that is no class, and registers no alert and sets no
\* current_alert_id
InferenceErrorKeepsLoopRunning ==
  [][\A t \in TaskIds :
       (/\ loop_detect(t, -1)
        /\ tasks[t].cam \in DOMAIN cameras
        /\ cameras[tasks[t].cam].live_detection_running)
         => LET c == tasks[t].cam IN
            /\ tasks'[t].pc = "sleep"
            /\ cameras'[c].live_detection_running
            /\ cameras'[c].error = cameras[c].error
            /\ \A k \in 1..Len(class_names) : cameras'[c].last_result # class_names[k]
            /\ alerts' = alerts
            /\ timers' = timers
            /\ cameras'[c].current_alert_id = cameras[c].current_alert_id]_vars

\* the loop went on after a tick whose inference raised: the record holds
\* that tick's entry followed by the entry of a tick that predicted a class,
\* and the camera is still running
TickAfterInferenceError ==
  /\ "c1" \in DOMAIN cameras
  /\ cameras["c1"].live_detection_running
  /\ LET h == cameras["c1"].detection_history IN
       /\ Len(h) = 2
       /\ h[1][2] = LabelOf(-1)
       /\ h[2][2] = class_names[defect_idx + 1]
  /\ \E t \in DOMAIN tasks : tasks[t].cam = "c1" /\ tasks[t].pc \in LivePcs

\* ---- properties of the countdown ------------------------------------------
\* C31: when the countdown task acts on an alert that is still registered,
\* an alert with countdown_action cancel_print or pause_print has the printer
\* suspend called for it while it is registered and is unregistered by the
\* step, and an alert with countdown_action dismiss is unregistered by the
\* step with no call of the printer suspend
CountdownSuspendsThenClears ==
  [][\A a \in AlertIds :
       (timer_act(a) /\ a \in DOMAIN alerts)
         => LET action == alerts[a].countdown_action IN
            /\ action \in {"cancel_print", "pause_print"}
                 => /\ Len(suspend_calls') = Len(suspend_calls) + 1
                    /\ suspend_calls'[Len(suspend_calls')].alert = a
                    /\ suspend_calls'[Len(suspend_calls')].registered
                    /\ a \notin DOMAIN alerts'
            /\ action = "dismiss"
                 => /\ suspend_calls' = suspend_calls
                    /\ a \notin DOMAIN alerts']_vars

\* what a step of the countdown task did for the alert: the action of the
\* printer suspend it called, "dismiss" when it only unregistered the alert,
\* "none" when it did neither
PerformedFor(a, calls_before, calls_after, alerts_after) ==
  IF Len(calls_after) > Len(calls_before)
  THEN calls_after[Len(calls_after)].action
  ELSE IF a \notin DOMAIN alerts_after THEN "dismiss" ELSE "none"

\* C32: the action the countdown task performs for a registered alert whose
\* recorded countdown_action is one of the three actions is that recorded
\* action, whatever the camera's countdown_action is by then
CountdownPerformsRecordedAction ==
  [][\A a \in AlertIds :
       (/\ timer_act(a)
        /\ a \in DOMAIN alerts
        /\ alerts[a].countdown_action \in AlertAction
        /\ alerts[a].camera_uuid \in DOMAIN cameras)
         => PerformedFor(a, suspend_calls, suspend_calls', alerts')
              = alerts[a].countdown_action]_vars

\* C36: an alert whose countdown task has ended is no longer registered,
\* whatever the camera's settings were and whether the camera was stopped,
\* restarted or removed meanwhile, so that every alert is removed by its
\* countdown at the latest
CountdownEndsEveryAlert ==
  \A a \in DOMAIN timers :
    timers[a] \in {"done", "failed"} => a \notin DOMAIN alerts

\* C37: a camera's current_alert_id is none exactly when no alert is
\* registered for the camera, and is otherwise the id of the one alert
\* registered for it; the creation of an alert is one step of this model
CurrentAlertIdMatchesRegistry ==
  \A c \in DOMAIN cameras :
    /\ cameras[c].current_alert_id = NoAlertId <=> AlertsOf(c) = {}
    /\ cameras[c].current_alert_id # NoAlertId => AlertsOf(c) = {cameras[c].current_alert_id}

\* C39: while a camera is stopped by a completed stop request (not running,
\* start_time none) and is not started by the step, no step changes its
\* detection_history, last_result or last_time or registers an alert for it
StoppedCameraStaysQuiet ==
  [][\A c \in CamIds :
       (/\ c \in DOMAIN cameras
        /\ c \in DOMAIN cameras'
        /\ ~cameras[c].live_detection_running
        /\ cameras[c].start_time = 0
        /\ stopping[c] = -1
        /\ ~cameras'[c].live_detection_running)
         => /\ cameras'[c].detection_history = cameras[c].detection_history
            /\ cameras'[c].last_result = cameras[c].last_result
            /\ cameras'[c].last_time = cameras[c].last_time
            /\ \A a \in AlertIds :
                 (a \in DOMAIN alerts' /\ alerts'[a].camera_uuid = c) => a \in DOMAIN alerts]_vars

Enqueued == {k \in 1..Len(sse_log) : sse_log[k].queued}

\* GET /sse: EventSourceResponse(send_packet()); the generator starts waiting
\* in outbound_packet_fetch on app.state.outbound_queue.get()
sse_connect(l) ==
  /\ listeners[l].pc = "none"
  /\ listeners' = [listeners EXCEPT ![l] = [pc |-> "waiting", connected |-> TRUE,
                                            packet |-> 0, since |-> Len(sse_log)]]
  /\ UNCHANGED <<storeVars, streamVars, outbound_queue, last_dispatch_times, sse_now,
                 sse_log, delivered>>

\* the client of a connection goes away
client_disconnect(l) ==
  /\ listeners[l].pc \in {"waiting", "holding"}
  /\ listeners[l].connected
  /\ listeners' = [listeners EXCEPT ![l].connected = FALSE]
  /\ UNCHANGED <<storeVars, streamVars, outbound_queue, last_dispatch_times, sse_now,
                 sse_log, delivered>>

\* the response is torn down while its generator waits on the queue
response_closed(l) ==
  /\ listeners[l].pc = "waiting"
  /\ ~listeners[l].connected
  /\ listeners' = [listeners EXCEPT ![l].pc = "ended"]
  /\ UNCHANGED <<storeVars, streamVars, outbound_queue, last_dispatch_times, sse_now,
                 sse_log, delivered>>

\* outbound_packet_fetch inside send_packet: queue.get() returns the head of
\* the queue to this generator, which then awaits request.is_disconnected()
send_packet_fetch(l) ==
  /\ listeners[l].pc = "waiting"
  /\ outbound_queue # <<>>
  /\ outbound_queue' = Tail(outbound_queue)
  /\ listeners' = [listeners EXCEPT ![l].pc = "holding",
                                    ![l].packet = Head(outbound_queue).data]
  /\ UNCHANGED <<storeVars, streamVars, last_dispatch_times, sse_now, sse_log, delivered>>

\* send_packet after is_disconnected(): break, or yield the packet and wait
\* for the next one
send_packet_yield(l) ==
  /\ listeners[l].pc = "holding"
  /\ IF ~listeners[l].connected
     THEN /\ listeners' = [listeners EXCEPT ![l].pc = "ended", ![l].packet = 0]
          /\ UNCHANGED delivered
     ELSE /\ listeners' = [listeners EXCEPT ![l].pc = "waiting", ![l].packet = 0]
          /\ delivered' = [delivered EXCEPT ![l] = Append(@, listeners[l].packet)]
  /\ UNCHANGED <<storeVars, streamVars, outbound_queue, last_dispatch_times, sse_now,
                 sse_log>>

NextListeners ==
  \/ \E t \in SSEDataType : append_new_outbound_packet(Len(sse_log) + 1, t)
  \/ sse_tick(MIN_SSE_DISPATCH_DELAY_MS)
  \/ \E l \in Listeners : sse_connect(l)
  \/ \E l \in Listeners : client_disconnect(l)
  \/ \E l \in Listeners : response_closed(l)
  \/ \E l \in Listeners : send_packet_fetch(l)
  \/ \E l \in Listeners : send_packet_yield(l)

SpecListeners == Init /\ [][NextListeners]_vars

DeliveredTo(l) == {delivered[l][i] : i \in 1..Len(delivered[l])}

QueuedPackets == {outbound_queue[i].data : i \in 1..Len(outbound_queue)}

HeldPackets == {listeners[l].packet : l \in {x \in Listeners : listeners[x].pc = "holding"}}

\* C13: once the queue is drained and no connection holds a packet, every
\* connection that is still subscribed has yielded every event enqueued
\* since it subscribed
BroadcastToAllListeners ==
  (outbound_queue = <<>> /\ HeldPackets = {})
    => \A l \in Listeners :
         (listeners[l].pc = "waiting" /\ listeners[l].connected)
           => \A k \in Enqueued : k > listeners[l].since => k \in DeliveredTo(l)

\* C14: an enqueued event is in the queue, held by a connection about to
\* yield it, or was yielded to a client: none vanishes
NoEventLostToDisconnect ==
  \A k \in Enqueued :
    \/ k \in QueuedPackets
    \/ k \in HeldPackets
    \/ \E l \in Listeners : k \in DeliveredTo(l)

\* ---- the store model: direct calls of the CameraStateManager methods -----
MaxStoreAppends == 2

\* the dictionaries update_camera_state is given in this model: one known
\* field, a full pair of required fields, a known field with an unknown key
StoreUpdates ==
  {[countdown_action |-> "cancel_print"],
   [nickname |-> "cam", source |-> "rtsp"],
   [live_detection_running |-> TRUE, zoom |-> 2]}

\* get_camera_state(camera_uuid, reset)
store_get(camera_uuid, reset) ==
  /\ LET call == manager_get_camera_state(cameras, camera_uuid, reset)
     IN /\ cameras' = call.states
        /\ store_call' = [op |-> "get", camera_uuid |-> camera_uuid, reset |-> reset,
                          raised |-> call.raised, saved |-> call.saved,
                          value |-> IF call.raised THEN <<>> ELSE call.value]
  /\ UNCHANGED <<alerts, timers, tasks, stopping, suspend_calls, clock, next_alert,
                 next_task, response, vote_result, streamVars, sseVars, lockVars, sse_tasks, otherVars>>

\* update_camera_state(camera_uuid, new_states)
store_update(camera_uuid, new_states) ==
  /\ LET call == manager_update_camera_state(cameras, camera_uuid, new_states)
     IN /\ cameras' = call.states
        /\ store_call' = [op |-> "update", camera_uuid |-> camera_uuid,
                          new_states |-> new_states,
                          raised |-> call.raised, saved |-> call.saved,
                          value |-> IF call.raised THEN <<>> ELSE call.value]
  /\ UNCHANGED <<alerts, timers, tasks, stopping, suspend_calls, clock, next_alert,
                 next_task, response, vote_result, streamVars, sseVars, lockVars, sse_tasks, otherVars>>

\* update_camera_detection_history(camera_uuid, pred, time.time())
store_append(camera_uuid, pred) ==
  /\ clock <= MaxStoreAppends
  /\ LET call == manager_update_camera_detection_history(cameras, camera_uuid, pred, clock)
     IN /\ cameras' = call.states
        /\ store_call' = [op |-> "append", camera_uuid |-> camera_uuid,
                          raised |-> call.raised, saved |-> call.saved]
  /\ clock' = clock + 1
  /\ UNCHANGED <<alerts, timers, tasks, stopping, suspend_calls, next_alert, next_task,
                 response, vote_result, streamVars, sseVars, lockVars, sse_tasks, otherVars>>

\* remove_camera(camera_uuid)
store_remove(camera_uuid) ==
  /\ remove_camera_effect(camera_uuid)
  /\ store_call' = [op |-> "remove", camera_uuid |-> camera_uuid,
                    result |-> remove_camera_result(cameras, camera_uuid)]
  /\ UNCHANGED <<alerts, timers, tasks, stopping, suspend_calls, clock, next_alert,
                 next_task, response, vote_result, stream_now, reads_left, last_read,
                 sseVars, lockVars, sse_tasks, otherVars>>

NextStore ==
  \/ \E c \in CamIds, reset \in BOOLEAN : store_get(c, reset)
  \/ \E c \in CamIds, u \in StoreUpdates : store_update(c, u)
  \/ \E c \in CamIds : store_append(c, "failure")
  \/ \E c \in CamIds : store_remove(c)
  \/ \E c \in MainCams : get_stream(c)
  \/ \E i \in StreamIds, opened \in BOOLEAN : capture_open(i, opened)

SpecStore == Init /\ [][NextStore]_vars

\* a record as the constructor leaves it: no history, no alert, no loop
IsFreshRecord(rec) ==
  /\ rec.detection_history = <<>>
  /\ rec.current_alert_id = NoAlertId
  /\ ~rec.live_detection_running

\* C15: every call of get returns a record; for an absent camera or with
\* reset it installs a default record under the id and returns that one;
\* otherwise it returns the existing record and leaves the store unchanged
GetAlwaysReturnsRecord ==
  [][\A c \in CamIds, reset \in BOOLEAN :
       store_get(c, reset)
         => /\ ~store_call'.raised
            /\ IF c \notin DOMAIN cameras \/ reset
               THEN /\ c \in DOMAIN cameras'
                    /\ IsFreshRecord(cameras'[c])
                    /\ store_call'.value = cameras'[c]
               ELSE /\ store_call'.value = cameras[c]
                    /\ cameras' = cameras]_vars

\* C16: update on an existing camera sets exactly the named fields the record
\* has, ignores unknown names and leaves every other field and every other
\* record as it was; on an absent camera it creates a record from the given
\* fields and returns it
UpdateSetsNamedFields ==
  [][\A c \in CamIds, u \in StoreUpdates :
       store_update(c, u)
         => /\ ~store_call'.raised
            /\ c \in DOMAIN cameras'
            /\ store_call'.value = cameras'[c]
            /\ \A k \in DOMAIN u \cap DOMAIN cameras'[c] : cameras'[c][k] = u[k]
            /\ \A d \in DOMAIN cameras \ {c} : d \in DOMAIN cameras' /\ cameras'[d] = cameras[d]
            /\ c \in DOMAIN cameras
                 => /\ DOMAIN cameras' = DOMAIN cameras
                    /\ DOMAIN cameras'[c] = DOMAIN cameras[c]
                    /\ \A k \in DOMAIN cameras[c] \ DOMAIN u :
                          cameras'[c][k] = cameras[c][k]]_vars

MaxLockCalls == 2

\* the coroutines of the server's event loop call update, append and remove;
\* get_camera_state of camera_utils runs the manager's get in a worker thread
\* under asyncio.run, which makes a new event loop for every call
IsWorker(k) == k \in {"worker_1", "worker_2"}

MutatingOps == {"get_create", "update", "append", "remove"}

OpsOf(k) == IF IsWorker(k) THEN {"get_create"} ELSE {"update", "append", "remove"}

\* the `lock` property: a new asyncio.Lock whenever there is none or the
\* running loop is not the one the lock was made for
lock_property(ml, loop) ==
  IF ml.lock = 0 \/ ml.loop # loop
  THEN [lock |-> ml.created + 1, loop |-> loop, created |-> ml.created + 1]
  ELSE ml

\* an event loop runs one coroutine at a time and the critical sections hold
\* no suspension point: a coroutine cannot start while another coroutine of
\* its loop is inside
LoopBusy(k, loop) ==
  \E j \in LockCallers \ {k} : callers[j].loop = loop /\ callers[j].pc = "inside"

\* `async with self.lock:` of a manager method: the property is read and the
\* lock it returned is acquired; a held lock makes the caller wait
manager_enter(k, op) ==
  LET loop == IF IsWorker(k) THEN <<k, callers[k].calls + 1>> ELSE MainLoop
      ml == lock_property(manager_lock, loop)
  IN /\ callers[k].pc = "idle"
     /\ callers[k].calls < MaxLockCalls
     /\ ~LoopBusy(k, loop)
     /\ ml.lock \notin locked
     /\ manager_lock' = ml
     /\ locked' = locked \cup {ml.lock}
     /\ callers' = [callers EXCEPT ![k] = [pc |-> "inside", loop |-> loop, lock |-> ml.lock,
                                           op |-> op, calls |-> @.calls + 1]]
     /\ UNCHANGED <<cameras, alerts, timers, tasks, stopping, suspend_calls, clock,
                    next_alert, next_task, response, vote_result, store_call,
                    streamVars, sseVars, sse_tasks, otherVars>>

\* the end of the `async with` block: the lock the caller acquired is released
manager_exit(k) ==
  /\ callers[k].pc = "inside"
  /\ locked' = locked \ {callers[k].lock}
  /\ callers' = [callers EXCEPT ![k].pc = "idle"]
  /\ UNCHANGED <<cameras, alerts, timers, tasks, stopping, suspend_calls, clock,
                 next_alert, next_task, response, vote_result, store_call,
                 manager_lock, streamVars, sseVars, sse_tasks, otherVars>>

NextLock ==
  \/ \E k \in LockCallers : \E op \in OpsOf(k) : manager_enter(k, op)
  \/ \E k \in LockCallers : manager_exit(k)

SpecLock == Init /\ [][NextLock]_vars

MutatorsInside ==
  {k \in LockCallers : callers[k].pc = "inside" /\ callers[k].op \in MutatingOps}

\* C18: at most one mutating operation is inside the store's critical
\* section at any time, worker threads with their own event loop included
MutationsAreSerialized == Cardinality(MutatorsInside) <= 1

\* ---- the event model: camera_state events of the detection loop ----------
\* the data of _sse_update_camera_state_func, read from the record the
\* manager holds when the task resumes (frame_rate is left out)
camera_state_packet(state, camera_uuid) ==
  [camera_uuid |-> camera_uuid,
   start_time |-> state.start_time,
   last_result |-> state.last_result,
   last_time |-> state.last_time,
   total_detections |-> Len(state.detection_history),
   error |-> state.error,
   live_detection_running |-> state.live_detection_running]

\* a detection tick up to its sleep, with create_task(sse_update_camera_state)
loop_detect_publish(t, numeric) ==
  /\ loop_detect_effect(t, numeric)
  /\ sse_tasks' = IF tasks[t].cam \in DOMAIN cameras
                  THEN [sse_tasks EXCEPT ![tasks[t].cam] = @ + 1]
                  ELSE sse_tasks
  /\ UNCHANGED <<streamVars, sseVars, store_call, lockVars, otherVars>>

\* sse_update_camera_state from the return of `await get_camera_state` on:
\* the packet is built and handed to append_new_outbound_packet; for a camera
\* without a record get_camera_state raises and the task only logs
sse_update_camera_state(camera_uuid) ==
  /\ sse_tasks[camera_uuid] > 0
  /\ sse_tasks' = [sse_tasks EXCEPT ![camera_uuid] = @ - 1]
  /\ IF camera_uuid \in DOMAIN cameras
     THEN append_new_outbound_packet_effect(
            camera_state_packet(cameras[camera_uuid], camera_uuid), "camera_state")
     ELSE UNCHANGED <<outbound_queue, last_dispatch_times, sse_log>>
  /\ UNCHANGED <<cameras, alerts, timers, tasks, stopping, suspend_calls, clock,
                 next_alert, next_task, response, vote_result, store_call,
                 streamVars, sse_now, listeners, delivered, lockVars, otherVars>>

NextEvents ==
  \/ \E c \in MainCams : start_live_detection(c)
  \/ \E c \in MainCams : stop_live_detection_begin(c)
  \/ \E c \in MainCams : stop_live_detection_end(c)
  \/ \E t \in TaskIds, frame \in {"frame", "none"} : loop_iterate(t, frame)
  \/ \E t \in TaskIds : loop_detect_publish(t, 0)
  \/ \E c \in MainCams : sse_update_camera_state(c)
  \/ sse_tick(MIN_SSE_DISPATCH_DELAY_MS)

SpecEvents == Init /\ [][NextEvents]_vars

\* positions of the camera_state events of a camera on the queue
CameraStateEvents(camera_uuid) ==
  {i \in 1..Len(outbound_queue) :
     /\ outbound_queue[i].event = "camera_state"
     /\ outbound_queue[i].data.camera_uuid = camera_uuid}

\* C23: along the queue, total_detections and last_time of one camera's
\* camera_state events never go backwards
CameraStateEventsInOrder ==
  \A c \in CamIds : \A i, j \in CameraStateEvents(c) :
    i < j => /\ outbound_queue[i].data.total_detections
                  <= outbound_queue[j].data.total_detections
             /\ outbound_queue[i].data.last_time <= outbound_queue[j].data.last_time

\* C23 amended: along the queue, total_detections and last_time of one
\* camera's camera_state events that carry the same start_time (events of
\* one run of live detection) never go backwards
CameraStateEventsInOrderWithinRun ==
  \A c \in CamIds : \A i, j \in CameraStateEvents(c) :
    (i < j /\ outbound_queue[i].data.start_time # 0
           /\ outbound_queue[i].data.start_time = outbound_queue[j].data.start_time)
      => /\ outbound_queue[i].data.total_detections
              <= outbound_queue[j].data.total_detections
         /\ outbound_queue[i].data.last_time <= outbound_queue[j].data.last_time

\* two events of one run are on the queue, the later with more detections
TwoEventsOfOneRun ==
  \E i, j \in CameraStateEvents("c1") :
    /\ i < j
    /\ outbound_queue[i].data.start_time # 0
    /\ outbound_queue[i].data.start_time = outbound_queue[j].data.start_time
    /\ outbound_queue[i].data.total_detections < outbound_queue[j].data.total_detections

\* ---- the notification model: what a tick announces -------------------------
\* outcomes of webpush for the subscriptions of a notification
PushOutcomes == {"sent", "failed"}

\* a detection tick up to its next suspension, with
\* create_task(sse_update_camera_state); a tick that registered an alert is
\* then suspended in send_defect_notification, inside _create_alert_and_notify
loop_detect_announce(t, numeric) ==
  /\ loop_detect_effect(t, numeric)
  /\ sse_tasks' = IF tasks[t].cam \in DOMAIN cameras
                  THEN [sse_tasks EXCEPT ![tasks[t].cam] = @ + 1]
                  ELSE sse_tasks
  /\ alert_events' =
       IF DOMAIN alerts' # DOMAIN alerts
       THEN LET a == CHOOSE a \in DOMAIN alerts' : a \notin DOMAIN alerts IN
            [alert_events EXCEPT !.creating = AddKey(@, t, alerts'[a])]
       ELSE alert_events
  /\ UNCHANGED <<streamVars, sseVars, store_call, lockVars, optimizer, printer>>

\* send_defect_notification from the return of its `await get_camera_state`:
\* send_notification catches what webpush raises, so either outcome returns;
\* then create_task(_send_alert(alert)) and the sleep of the loop
loop_notified_push(t, push) ==
  /\ t \in DOMAIN tasks
  /\ tasks[t].pc = "notify"
  /\ t \in DOMAIN alert_events.creating
  /\ LET alert == alert_events.creating[t] IN
     IF tasks[t].cam \in DOMAIN cameras
     THEN /\ tasks' = [tasks EXCEPT ![t].pc = "sleep"]
          /\ alert_events' = [alert_events EXCEPT
                                !.creating = RemoveKey(@, t),
                                !.push = AddKey(@, alert.id, push),
                                !.pending = AddKey(@, alert.id, alert)]
     ELSE /\ tasks' = [tasks EXCEPT ![t].pc = "failed"]
          /\ alert_events' = [alert_events EXCEPT !.creating = RemoveKey(@, t)]
  /\ UNCHANGED <<cameras, alerts, timers, stopping, suspend_calls, clock, next_alert,
                 next_task, response, vote_result, streamVars, sseVars, store_call,
                 lockVars, sse_tasks, optimizer, printer>>

\* _send_alert: the alert is handed to append_new_outbound_packet as an event
\* of type alert
send_alert(alert_id) ==
  /\ alert_id \in DOMAIN alert_events.pending
  /\ append_new_outbound_packet_effect(alert_events.pending[alert_id], "alert")
  /\ alert_events' = [alert_events EXCEPT !.pending = RemoveKey(@, alert_id),
                                           !.sent = @ \cup {alert_id}]
  /\ UNCHANGED <<cameras, alerts, timers, tasks, stopping, suspend_calls, clock,
                 next_alert, next_task, response, vote_result, store_call,
                 streamVars, sse_now, listeners, delivered, lockVars, sse_tasks,
                 optimizer, printer>>

\* both cameras detect, with a vote that one defect tick passes; no client
\* acts on an alert and no countdown ends
NextNotify ==
  \/ \E c \in CamIds : start_live_detection(c)
  \/ \E c \in CamIds, v \in VoteInputs : update_settings(c, COUNTDOWN_ACTION, v[1], v[2])
  \/ \E t \in TaskIds : loop_iterate(t, "frame")
  \/ \E t \in TaskIds, numeric \in {0, 1} : loop_detect_announce(t, numeric)
  \/ \E t \in TaskIds, push \in PushOutcomes : loop_notified_push(t, push)
  \/ \E a \in AlertIds : send_alert(a)
  \/ \E c \in CamIds : sse_update_camera_state(c)
  \/ sse_tick(MIN_SSE_DISPATCH_DELAY_MS)

SpecNotify == Init /\ [][NextNotify]_vars

\* positions of the alert events on the queue that carry the alert
AlertEventsOf(alert_id) ==
  {i \in 1..Len(outbound_queue) :
     /\ outbound_queue[i].event = "alert"
     /\ outbound_queue[i].data.id = alert_id}

\* C33: once the _send_alert task of a created alert has run, an event of
\* type alert that carries the alert is on the outbound queue, which no
\* client has taken a packet from
EveryAlertHasItsEvent ==
  \A a \in alert_events.sent : AlertEventsOf(a) # {}

\* C35: for an alert whose push notification failed, the loop that created
\* it is still pending and its camera still running, the alert is registered
\* with its countdown task asleep, and once its _send_alert task has run its
\* alert event is on the outbound queue
PushFailureNotEscalated ==
  \A a \in DOMAIN alert_events.push :
    alert_events.push[a] = "failed"
      => /\ \E t \in DOMAIN tasks : tasks[t].cam = a[1] /\ tasks[t].pc \in LivePcs
         /\ cameras[a[1]].live_detection_running
         /\ a \in DOMAIN alerts
         /\ a \in DOMAIN timers
         /\ timers[a] = "sleeping"
         /\ a \in alert_events.sent
              => \E i \in 1..Len(outbound_queue) :
                   outbound_queue[i] = [event |-> "alert", data |-> alerts[a]]

\* the calls of append_new_outbound_packet with a camera_state event of the
\* camera
CameraStateCalls(camera_uuid) ==
  {k \in 1..Len(sse_log) :
     /\ sse_log[k].type = "camera_state"
     /\ sse_log[k].packet.camera_uuid = camera_uuid}

\* C38: a camera_state event of a camera is dropped only when a camera_state
\* event of the same camera was enqueued less than MIN_SSE_DISPATCH_DELAY_MS
\* before it; events of other cameras play no part
ThrottleIsPerCamera ==
  \A c \in CamIds : \A k \in CameraStateCalls(c) :
    ~sse_log[k].queued
      => \E j \in CameraStateCalls(c) :
           /\ j < k
           /\ sse_log[j].queued
           /\ sse_log[k].at - sse_log[j].at < MIN_SSE_DISPATCH_DELAY_MS

\* ---- the printer model: suspend_print_job and the printer it talks to ------
\* printer_config['printer_type'] of the camera, "None" for no printer_config
PrinterTypes == {"None", "octoprint"}

\* job_info.state as the printer reports it; "raise" stands for a
\* get_job_info that raises (HTTP error, timeout)
JobStates == {"Printing", "Paused", "Operational", "raise"}

\* variant: a paused job counts as one to suspend
job_is_active(state) == state \in {"Printing", "Paused"}

\* the negation of `job_info.state != "Printing"`
job_is_printing(state) == state = "Printing"

\* the command suspend_print_job sends for the action, "none" for no command
suspend_command(printer_type, state, action) ==
  IF printer_type # "octoprint" THEN "none"
  ELSE IF state = "raise" THEN "none"
  ELSE IF ~job_is_printing(state) THEN "none"
  ELSE IF action = "cancel_print" THEN "cancel"
  ELSE IF action = "pause_print" THEN "pause"
  ELSE "none"

\* what suspend_print_job returns; a command the printer rejects raises
suspend_returned(printer_type, state, action, accepted) ==
  IF printer_type # "octoprint" THEN FALSE
  ELSE IF state = "raise" THEN FALSE
  ELSE IF suspend_command(printer_type, state, action) = "none" THEN TRUE
  ELSE accepted

PrinterUnchanged ==
  UNCHANGED <<cameras, alerts, timers, tasks, stopping, suspend_calls, clock,
              next_alert, next_task, response, vote_result, store_call,
              streamVars, sseVars, lockVars, sse_tasks, optimizer, alert_events>>

\* set_printer, or the removal of the camera's printer
set_printer(printer_type) ==
  /\ printer' = [printer EXCEPT !.printer_type = printer_type]
  /\ PrinterUnchanged

\* the printer goes on to another job state
printer_reports(state) ==
  /\ printer' = [printer EXCEPT !.state = state]
  /\ PrinterUnchanged

\* a call of suspend_print_job(camera_uuid, action)
suspend_print_job_call(action, accepted) ==
  /\ Len(printer.calls) < MaxPrinterCalls
  /\ LET command == suspend_command(printer.printer_type, printer.state, action) IN
     printer' = [printer EXCEPT
                   !.commands = IF command = "none" THEN @ ELSE Append(@, command),
                   !.calls = Append(@, [action |-> action,
                                        printer_type |-> printer.printer_type,
                                        state |-> printer.state,
                                        command |-> command,
                                        returned |-> suspend_returned(printer.printer_type,
                                                        printer.state, action, accepted)])]
  /\ PrinterUnchanged

NextPrinter ==
  \/ \E printer_type \in PrinterTypes : set_printer(printer_type)
  \/ \E state \in JobStates : printer_reports(state)
  \/ \E action \in AlertAction, accepted \in BOOLEAN : suspend_print_job_call(action, accepted)

SpecPrinter == Init /\ [][NextPrinter]_vars

MaxOptimizerTime == 160

OptimizerStep == 20    \* seconds between two observations of the clock

\* Python truth value of a value written as its repr
truthy(x) == x \notin {"None", "False", ""}

PyBool(b) == IF b THEN "True" ELSE "False"

\* Python `a and b`
py_and(a, b) == IF truthy(a) THEN b ELSE a

\* the value given to is_tunnel_mode
is_tunnel_mode(startup_mode, tunnel_provider, optimize_for_tunnel) ==
  IF optimize_for_tunnel = "None"
  THEN PyBool(startup_mode = py_and("tunnel", PyBool(tunnel_provider # "None")))
  ELSE optimize_for_tunnel

\* the cache _get_current_settings builds; the keys stream_max_fps,
\* stream_tunnel_fps, stream_jpeg_quality and stream_max_width are not in the
\* config, so the defaults of the chosen branch apply
current_settings(o) ==
  LET tunnel == is_tunnel_mode(o.startup_mode, o.tunnel_provider,
                               o.stream_optimize_for_tunnel)
  IN IF truthy(tunnel)
     THEN [is_tunnel_mode |-> tunnel, max_fps |-> STREAM_TUNNEL_FPS,
           jpeg_quality |-> STREAM_TUNNEL_JPEG_QUALITY, max_width |-> STREAM_TUNNEL_MAX_WIDTH]
     ELSE [is_tunnel_mode |-> tunnel, max_fps |-> STREAM_MAX_FPS,
           jpeg_quality |-> STREAM_JPEG_QUALITY, max_width |-> STREAM_MAX_WIDTH]

OptimizerUnchanged ==
  UNCHANGED <<cameras, alerts, timers, tasks, stopping, suspend_calls, clock,
              next_alert, next_task, response, vote_result, store_call,
              streamVars, sseVars, lockVars, sse_tasks, alert_events, printer>>

\* update_config({key: value}) for one of the keys the optimizer reads
optimizer_update_config(key, value) ==
  /\ optimizer' = [optimizer EXCEPT ![key] = value, !.recomputed = FALSE]
  /\ OptimizerUnchanged

\* StreamOptimizer.get_stream_settings
get_stream_settings ==
  /\ IF optimizer.now - optimizer.last_config_check > config_check_interval
     THEN optimizer' = [optimizer EXCEPT !.config_cache = current_settings(optimizer),
                                         !.last_config_check = optimizer.now,
                                         !.recomputed = TRUE]
     ELSE optimizer' = [optimizer EXCEPT !.recomputed = FALSE]
  /\ OptimizerUnchanged

\* StreamOptimizer.invalidate_cache
invalidate_cache ==
  /\ optimizer' = [optimizer EXCEPT !.config_cache = EmptyCache,
                                    !.last_config_check = 0,
                                    !.recomputed = FALSE]
  /\ OptimizerUnchanged

optimizer_tick ==
  /\ optimizer.now + OptimizerStep <= MaxOptimizerTime
  /\ optimizer' = [optimizer EXCEPT !.now = @ + OptimizerStep, !.recomputed = FALSE]
  /\ OptimizerUnchanged

OptimizerConfigInputs ==
  ({"startup_mode"} \X {"None", "setup", "local", "tunnel"})
    \cup ({"tunnel_provider"} \X {"None", "ngrok", "cloudflare"})
    \cup ({"stream_optimize_for_tunnel"} \X {"None", "True", "False"})

NextOptimizer ==
  \/ \E kv \in OptimizerConfigInputs : optimizer_update_config(kv[1], kv[2])
  \/ get_stream_settings
  \/ invalidate_cache
  \/ optimizer_tick

SpecOptimizer == Init /\ [][NextOptimizer]_vars

\* the cache holds the values of the tunnel profile
SelectsTunnelProfile(cache) ==
  /\ cache.max_fps = STREAM_TUNNEL_FPS
  /\ cache.jpeg_quality = STREAM_TUNNEL_JPEG_QUALITY
  /\ cache.max_width = STREAM_TUNNEL_MAX_WIDTH

\* C24: after a recomputation the tunnel profile is selected exactly when the
\* override is true, or the override is unset and the startup mode is tunnel
\* with a tunnel provider configured; otherwise the local profile
TunnelProfileIffTunneled ==
  optimizer.recomputed
    => (SelectsTunnelProfile(optimizer.config_cache)
          <=> \/ optimizer.stream_optimize_for_tunnel = "True"
              \/ /\ optimizer.stream_optimize_for_tunnel = "None"
                 /\ optimizer.startup_mode = "tunnel"
                 /\ optimizer.tunnel_provider # "None")

====
